---- MODULE Spec2Model ----
(***************************************************************************)
(* Catalog-enrichment template engine (utils/catalog.ts): the per-platform *)
(* title / bullet / description / keyword templates, generateListing and   *)
(* enrichCatalog, over rows that map column names to strings; and the two  *)
(* components that drive it: CatalogAssistant (upload, marketplace         *)
(* selection, generate, download) and VoiceAgent (the task commands).      *)
(*                                                                         *)
(* A JavaScript string is modelled as the sequence of its characters (each *)
(* character a one-character TLA+ string), so that trim, split, slice and  *)
(* join act on characters as the code's do.  A column name is only ever    *)
(* compared for equality and stays an atomic TLA+ string.                  *)
(***************************************************************************)
EXTENDS Integers, Sequences, FiniteSets, TLC

VARIABLES
    pc,         \* "start" before the call under check, "done" after it
    row,        \* generateListing: the row argument
    platform,   \* generateListing: the platform argument
    listing,    \* generateListing: the returned record (<<>> before the call)
    rows,       \* enrichCatalog: the rows argument
    plats,      \* enrichCatalog: the platforms argument
    enriched,   \* enrichCatalog: the returned array (<<>> before the call)
    heap,       \* the objects alive, in allocation order; a reference is an index
    rowsRef,    \* the rows array of a call, as references into heap
    outRef,     \* the references a call returned (<<>> before the call)
    rawRows,    \* CatalogAssistant: the rows of the sheet parsed last
    platforms,  \* CatalogAssistant: the selected marketplaces, in order
    uploadState,\* CatalogAssistant: "idle", "processing" or "ready"
    message,    \* CatalogAssistant: the status line
    outputRows, \* CatalogAssistant: the records generated last
    parsing,    \* CatalogAssistant: the Papa.parse calls not yet answered
    calls,      \* CatalogAssistant: the outward calls of the handler that ran last
    tasks,      \* VoiceAgent: the task list
    logs,       \* VoiceAgent: the conversation log
    utterance,  \* VoiceAgent: the text the speech synthesiser holds
    reported    \* VoiceAgent: the task list passed last to onTaskUpdate

\* The arguments and results of a call, as values.
callVars == <<row, platform, listing, rows, plats, enriched>>

\* The objects of a call, as references.
heapVars == <<heap, rowsRef, outRef>>

\* The state of the CatalogAssistant component, and its outward calls.
appVars == <<rawRows, platforms, uploadState, message, outputRows, parsing, calls>>

\* The state of the VoiceAgent component, and what it passed outward.
voiceVars == <<tasks, logs, utterance, reported>>

vars == <<pc, callVars, heapVars, appVars, voiceVars>>

-----------------------------------------------------------------------------
(* JavaScript values and string methods                                    *)

\* The value of a property the object does not have.  It is a sequence, so
\* that it can be compared with strings, but its one element is no character.
Undefined == <<"undefined">>

\* The character U+2022, one UTF-16 code unit.
Bullet == "U+2022"

\* The characters String.prototype.trim removes that the inputs here can hold.
Whitespace == {" ", "\t", "\n"}

\* Boolean(v) for v a string or undefined: false for "" and undefined.
Truthy(v) == v # Undefined /\ v # <<>>

\* Mutant of Or: a ?? b, which falls back only for undefined.
OrNullish(a, b) == IF a # Undefined THEN a ELSE b

\* a || b
Or(a, b) == IF Truthy(a) THEN a ELSE b

\* row.c / row["c"]
Get(r, c) == IF c \in DOMAIN r THEN r[c] ELSE Undefined

RECURSIVE TrimStart(_)
TrimStart(s) ==
    IF s # <<>> /\ Head(s) \in Whitespace THEN TrimStart(Tail(s)) ELSE s

RECURSIVE TrimEnd(_)
TrimEnd(s) ==
    IF s # <<>> /\ s[Len(s)] \in Whitespace
    THEN TrimEnd(SubSeq(s, 1, Len(s) - 1))
    ELSE s

\* s.trim()
trim(s) == TrimEnd(TrimStart(s))

\* s.slice(0, n)
slice(s, n) == IF Len(s) <= n THEN s ELSE SubSeq(s, 1, n)

\* s.split(/[...]/) and s.split(","): cut at every character of delims;
\* "" gives [""], n delimiters give n + 1 fragments.
RECURSIVE split(_, _)
split(s, delims) ==
    LET hits == {i \in 1..Len(s) : s[i] \in delims}
    IN  IF hits = {}
        THEN <<s>>
        ELSE LET i == CHOOSE k \in hits : \A j \in hits : k <= j
             IN  <<SubSeq(s, 1, i - 1)>> \o split(SubSeq(s, i + 1, Len(s)), delims)

\* parts.join(sep), for parts that are all strings
RECURSIVE join(_, _)
join(parts, sep) ==
    IF parts = <<>> THEN <<>>
    ELSE IF Len(parts) = 1 THEN parts[1]
    ELSE parts[1] \o sep \o join(Tail(parts), sep)

\* parts.filter(Boolean)
filterBoolean(parts) == SelectSeq(parts, Truthy)

\* parts.map((part) => part.trim())
mapTrim(parts) == [i \in 1..Len(parts) |-> trim(parts[i])]

-----------------------------------------------------------------------------
(* String literals of catalog.ts                                           *)

\* "Premium"
Premium ==
    <<"P","r","e","m","i","u","m">>

\* "Product"
Product ==
    <<"P","r","o","d","u","c","t">>

\* "Exclusive Pick"
ExclusivePick ==
    <<"E","x","c","l","u","s","i","v","e"," ","P","i","c","k">>

\* "Trendy Look"
TrendyLook ==
    <<"T","r","e","n","d","y"," ","L","o","o","k">>

\* "Best Seller"
BestSeller ==
    <<"B","e","s","t"," ","S","e","l","l","e","r">>

\* "Signature"
Signature ==
    <<"S","i","g","n","a","t","u","r","e">>

\* "Collection"
Collection ==
    <<"C","o","l","l","e","c","t","i","o","n">>

\* " | "
BarSep ==
    <<" ","|"," ">>

\* " - "
DashSep ==
    <<" ","-"," ">>

\* " "
Space ==
    <<" ">>

\* ", "
CommaSep ==
    <<","," ">>

\* "Crafted from "
CraftedFrom ==
    <<"C","r","a","f","t","e","d"," ","f","r","o","m"," ">>

\* "Ideal for "
IdealFor ==
    <<"I","d","e","a","l"," ","f","o","r"," ">>

\* "."
Dot ==
    <<".">>

\* "Trusted quality"
TrustedQuality ==
    <<"T","r","u","s","t","e","d"," ","q","u","a","l","i","t","y">>

\* "Curated for your boutique"
CuratedForYourBoutique ==
    <<"C","u","r","a","t","e","d"," ","f","o","r"," ","y","o","u","r"," ","b","o","u","t","i","q","u","e">>

\* "Ships fast"
ShipsFast ==
    <<"S","h","i","p","s"," ","f","a","s","t">>

\* "this product"
ThisProduct ==
    <<"t","h","i","s"," ","p","r","o","d","u","c","t">>

\* "premium item"
PremiumItem ==
    <<"p","r","e","m","i","u","m"," ","i","t","e","m">>

\* "professional"
Professional ==
    <<"p","r","o","f","e","s","s","i","o","n","a","l">>

\* " delivers a "
AmazonDesc1 ==
    <<" ","d","e","l","i","v","e","r","s"," ","a"," ">>

\* " experience in the "
AmazonDesc2 ==
    <<" ","e","x","p","e","r","i","e","n","c","e"," ","i","n"," ","t","h","e"," ">>

\* " category. Designed to maximise conversion with compelling features and customer-centric benefits."
AmazonDesc3 ==
    <<" ","c","a","t","e","g","o","r","y","."," ","D","e","s","i","g","n","e","d"," ","t","o"," ","m","a","x","i","m","i","s","e"," ","c","o","n","v","e","r","s","i","o","n"," ","w","i","t","h"," ","c","o","m","p","e","l","l","i","n","g"," ","f","e","a","t","u","r","e","s"," ","a","n","d"," ","c","u","s","t","o","m","e","r","-","c","e","n","t","r","i","c"," ","b","e","n","e","f","i","t","s",".">>

\* "India"
India ==
    <<"I","n","d","i","a">>

\* "Handpicked for Flipkart customers. Crafted in "
FlipkartDesc1 ==
    <<"H","a","n","d","p","i","c","k","e","d"," ","f","o","r"," ","F","l","i","p","k","a","r","t"," ","c","u","s","t","o","m","e","r","s","."," ","C","r","a","f","t","e","d"," ","i","n"," ">>

\* " with attention to detailing, ensuring great value for money shoppers."
FlipkartDesc2 ==
    <<" ","w","i","t","h"," ","a","t","t","e","n","t","i","o","n"," ","t","o"," ","d","e","t","a","i","l","i","n","g",","," ","e","n","s","u","r","i","n","g"," ","g","r","e","a","t"," ","v","a","l","u","e"," ","f","o","r"," ","m","o","n","e","y"," ","s","h","o","p","p","e","r","s",".">>

\* "Optimised margins for resellers."
OptimisedMargins ==
    <<"O","p","t","i","m","i","s","e","d"," ","m","a","r","g","i","n","s"," ","f","o","r"," ","r","e","s","e","l","l","e","r","s",".">>

\* "Perfect addition for boutique sellers. "
MeeshoDesc1 ==
    <<"P","e","r","f","e","c","t"," ","a","d","d","i","t","i","o","n"," ","f","o","r"," ","b","o","u","t","i","q","u","e"," ","s","e","l","l","e","r","s","."," ">>

\* " Lightweight packaging for reduced logistics cost."
MeeshoDesc2 ==
    <<" ","L","i","g","h","t","w","e","i","g","h","t"," ","p","a","c","k","a","g","i","n","g"," ","f","o","r"," ","r","e","d","u","c","e","d"," ","l","o","g","i","s","t","i","c","s"," ","c","o","s","t",".">>

\* "seasonal"
Seasonal ==
    <<"s","e","a","s","o","n","a","l">>

\* "Part of our "
MyntraDesc1 ==
    <<"P","a","r","t"," ","o","f"," ","o","u","r"," ">>

\* " drop, aligned with Myntra style guides. Pair it effortlessly with trending wardrobe essentials."
MyntraDesc2 ==
    <<" ","d","r","o","p",","," ","a","l","i","g","n","e","d"," ","w","i","t","h"," ","M","y","n","t","r","a"," ","s","t","y","l","e"," ","g","u","i","d","e","s","."," ","P","a","i","r"," ","i","t"," ","e","f","f","o","r","t","l","e","s","s","l","y"," ","w","i","t","h"," ","t","r","e","n","d","i","n","g"," ","w","a","r","d","r","o","b","e"," ","e","s","s","e","n","t","i","a","l","s",".">>

\* "Wholesale"
Wholesale ==
    <<"W","h","o","l","e","s","a","l","e">>

\* "Trending"
Trending ==
    <<"T","r","e","n","d","i","n","g">>

-----------------------------------------------------------------------------
(* catalog.ts                                                              *)

ListingPlatform == {"Amazon", "Flipkart", "Meesho", "Myntra"}

\* The character class /[|,•\n]/ of the bullet splitters.
FeatureDelims == {"|", ",", Bullet, "\n"}

\* The character class /[.|]/ of the Flipkart bullet splitter.
UspDelims == {".", "|"}

AmazonTitleMax == 180
FlipkartTitleMax == 100
MeeshoTitleMax == 120
MyntraTitleMax == 80
AmazonBulletMax == 5
FlipkartBulletMax == 5
FlipkartBulletMinLen == 3
MeeshoBulletMax == 4
MyntraBulletMax == 3
AmazonKeywordMax == 15

\* Mutant of AmazonTitleParts: the brand chain reads Brand before brand.
AmazonTitlePartsBrandSwapped(r) ==
    LET brand == Or(Or(Or(Get(r, "Brand"), Get(r, "brand")), Get(r, "vendor")), Premium)
        name == Or(Or(Or(Get(r, "product_name"), Get(r, "title")), Get(r, "Name")), Product)
        keyTrait == Or(Or(Or(Or(Get(r, "key_feature"), Get(r, "feature")),
                             Get(r, "Features")), Get(r, "material")), <<>>)
        size == Or(Or(Get(r, "size"), Get(r, "Size")), <<>>)
    IN  <<brand, name, keyTrait, size>>

\* titleTemplates.Amazon: [brand, name, keyTrait, size]
AmazonTitleParts(r) ==
    LET brand == Or(Or(Or(Get(r, "brand"), Get(r, "Brand")), Get(r, "vendor")), Premium)
        name == Or(Or(Or(Get(r, "product_name"), Get(r, "title")), Get(r, "Name")), Product)
        keyTrait == Or(Or(Or(Or(Get(r, "key_feature"), Get(r, "feature")),
                             Get(r, "Features")), Get(r, "material")), <<>>)
        size == Or(Or(Get(r, "size"), Get(r, "Size")), <<>>)
    IN  <<brand, name, keyTrait, size>>

\* titleTemplates.Amazon before .slice(0, 180): filter, then trim, then join
AmazonTitleJoined(r) == join(mapTrim(filterBoolean(AmazonTitleParts(r))), BarSep)

\* Mutant of AmazonTitle: the ceiling cuts each part, not the joined title.
AmazonTitlePerPart(r) ==
    LET parts == mapTrim(filterBoolean(AmazonTitleParts(r)))
    IN  join([i \in 1..Len(parts) |-> slice(parts[i], AmazonTitleMax)], BarSep)

AmazonTitle(r) == slice(AmazonTitleJoined(r), AmazonTitleMax)

\* titleTemplates.Flipkart before .slice(0, 100)
FlipkartTitleComposed(r) ==
    LET base == Or(Or(Get(r, "product_name"), Get(r, "title")), ExclusivePick)
        qualifier == Or(Or(Or(Get(r, "style"), Get(r, "pattern")), Get(r, "gender")), <<>>)
    IN  trim(base \o Space \o qualifier)

FlipkartTitle(r) == slice(FlipkartTitleComposed(r), FlipkartTitleMax)

\* titleTemplates.Meesho before .slice(0, 120)
MeeshoTitleComposed(r) ==
    LET base == Or(Or(Get(r, "product_name"), Get(r, "title")), TrendyLook)
        category == Or(Or(Get(r, "category"), Get(r, "segment")), BestSeller)
    IN  base \o DashSep \o category

MeeshoTitle(r) == slice(MeeshoTitleComposed(r), MeeshoTitleMax)

\* titleTemplates.Myntra before .slice(0, 80)
MyntraTitleComposed(r) ==
    LET brand == Or(Or(Get(r, "brand"), Get(r, "Brand")), Signature)
        base == Or(Or(Get(r, "product_name"), Get(r, "title")), Collection)
    IN  brand \o Space \o base

MyntraTitle(r) == slice(MyntraTitleComposed(r), MyntraTitleMax)

\* The title of platform p before its .slice(0, max).
TitleComposed(p, r) ==
    CASE p = "Amazon" -> AmazonTitleJoined(r)
      [] p = "Flipkart" -> FlipkartTitleComposed(r)
      [] p = "Meesho" -> MeeshoTitleComposed(r)
      [] p = "Myntra" -> MyntraTitleComposed(r)

titleTemplates(p, r) ==
    CASE p = "Amazon" -> AmazonTitle(r)
      [] p = "Flipkart" -> FlipkartTitle(r)
      [] p = "Meesho" -> MeeshoTitle(r)
      [] p = "Myntra" -> MyntraTitle(r)

\* Mutant of AmazonBullets: the cap of 5 is applied to the features alone.
AmazonBulletsFeaturesCapped(r) ==
    LET features == filterBoolean(mapTrim(split(
                        Or(Or(Get(r, "features"), Get(r, "Features")), <<>>),
                        FeatureDelims)))
        material == IF Truthy(Get(r, "material"))
                    THEN CraftedFrom \o Get(r, "material") \o Dot
                    ELSE Undefined
        usage == IF Truthy(Get(r, "usage"))
                 THEN IdealFor \o Get(r, "usage") \o Dot
                 ELSE Undefined
    IN  filterBoolean(<<material, usage>>) \o slice(features, AmazonBulletMax)

\* bulletTemplates.Amazon
AmazonBullets(r) ==
    LET features == filterBoolean(mapTrim(split(
                        Or(Or(Get(r, "features"), Get(r, "Features")), <<>>),
                        FeatureDelims)))
        material == IF Truthy(Get(r, "material"))
                    THEN CraftedFrom \o Get(r, "material") \o Dot
                    ELSE Undefined
        usage == IF Truthy(Get(r, "usage"))
                 THEN IdealFor \o Get(r, "usage") \o Dot
                 ELSE Undefined
    IN  slice(filterBoolean(<<material, usage>> \o features), AmazonBulletMax)

\* bulletTemplates.Flipkart
FlipkartBullets(r) ==
    LET usp == Or(Or(Or(Get(r, "usp"), Get(r, "UniqueSellingPoint")),
                     Get(r, "description")), <<>>)
        LongEnough(part) == Len(part) > FlipkartBulletMinLen
    IN  slice(SelectSeq(mapTrim(split(usp, UspDelims)), LongEnough), FlipkartBulletMax)

\* Mutant of MeeshoBullets: the defaults also replace a list left empty.
MeeshoBulletsDefaultWhenNone(r) ==
    LET highlight == Or(Or(Or(Get(r, "highlight"), Get(r, "Highlights")),
                           Get(r, "features")), <<>>)
        bullets == slice(filterBoolean(mapTrim(split(highlight, FeatureDelims))),
                         MeeshoBulletMax)
    IN  IF bullets = <<>>
        THEN <<TrustedQuality, CuratedForYourBoutique, ShipsFast>>
        ELSE bullets

\* bulletTemplates.Meesho
MeeshoBullets(r) ==
    LET highlight == Or(Or(Or(Get(r, "highlight"), Get(r, "Highlights")),
                           Get(r, "features")), <<>>)
    IN  IF ~Truthy(highlight)
        THEN <<TrustedQuality, CuratedForYourBoutique, ShipsFast>>
        ELSE slice(filterBoolean(mapTrim(split(highlight, FeatureDelims))),
                   MeeshoBulletMax)

\* bulletTemplates.Myntra
MyntraBullets(r) ==
    LET styleTip == Or(Or(Get(r, "style_tip"), Get(r, "Styling")), <<>>)
        care == Or(Or(Get(r, "care"), Get(r, "care_instructions")), <<>>)
    IN  slice(filterBoolean(<<styleTip, care>>), MyntraBulletMax)

bulletTemplates(p, r) ==
    CASE p = "Amazon" -> AmazonBullets(r)
      [] p = "Flipkart" -> FlipkartBullets(r)
      [] p = "Meesho" -> MeeshoBullets(r)
      [] p = "Myntra" -> MyntraBullets(r)

\* descriptionTemplates.Amazon
AmazonDescription(r) ==
    LET name == Or(Or(Get(r, "product_name"), Get(r, "title")), ThisProduct)
        category == Or(Or(Get(r, "category"), Get(r, "ProductType")), PremiumItem)
        tone == Or(Get(r, "tone"), Professional)
    IN  name \o AmazonDesc1 \o tone \o AmazonDesc2 \o category \o AmazonDesc3

\* descriptionTemplates.Flipkart
FlipkartDescription(r) ==
    LET origin == Or(Or(Get(r, "country_of_origin"), Get(r, "origin")), India)
    IN  FlipkartDesc1 \o origin \o FlipkartDesc2

\* Mutant of MeeshoDescription: row.margin || (row.wholesale_price ? ... : "").
MeeshoDescriptionMarginValue(r) ==
    LET margin == Or(Get(r, "margin"),
                     IF Truthy(Get(r, "wholesale_price")) THEN OptimisedMargins ELSE <<>>)
    IN  MeeshoDesc1 \o margin \o MeeshoDesc2

\* descriptionTemplates.Meesho: (row.margin || row.wholesale_price) ? ... : ""
MeeshoDescription(r) ==
    LET margin == IF Truthy(Or(Get(r, "margin"), Get(r, "wholesale_price")))
                  THEN OptimisedMargins
                  ELSE <<>>
    IN  MeeshoDesc1 \o margin \o MeeshoDesc2

\* descriptionTemplates.Myntra
MyntraDescription(r) ==
    LET vibe == Or(Or(Get(r, "theme"), Get(r, "collection")), Seasonal)
    IN  MyntraDesc1 \o vibe \o MyntraDesc2

descriptionTemplates(p, r) ==
    CASE p = "Amazon" -> AmazonDescription(r)
      [] p = "Flipkart" -> FlipkartDescription(r)
      [] p = "Meesho" -> MeeshoDescription(r)
      [] p = "Myntra" -> MyntraDescription(r)

\* item?.toString().trim() || ""
KeywordItem(item) == IF item = Undefined THEN <<>> ELSE Or(trim(item), <<>>)

\* Mutant of AmazonKeywords: a keyword already in the list is dropped.
AmazonKeywordsDeduped(r) ==
    LET keywords == Or(Or(Get(r, "keywords"), Get(r, "search_terms")), <<>>)
        derived == filterBoolean(<<Get(r, "category"), Get(r, "sub_category"),
                                   Get(r, "material"), Get(r, "color"),
                                   Get(r, "season")>>)
        all == split(keywords, {","}) \o derived
        items == filterBoolean([i \in 1..Len(all) |-> KeywordItem(all[i])])
        IsFirst(i) == \A j \in 1..(i - 1) : items[j] # items[i]
        firsts == {i \in 1..Len(items) : IsFirst(i)}
        Nth(k) == CHOOSE i \in firsts : Cardinality({j \in firsts : j < i}) = k - 1
    IN  slice([k \in 1..Cardinality(firsts) |-> items[Nth(k)]], AmazonKeywordMax)

\* keywordTemplates.Amazon
AmazonKeywords(r) ==
    LET keywords == Or(Or(Get(r, "keywords"), Get(r, "search_terms")), <<>>)
        derived == filterBoolean(<<Get(r, "category"), Get(r, "sub_category"),
                                   Get(r, "material"), Get(r, "color"),
                                   Get(r, "season")>>)
        all == split(keywords, {","}) \o derived
    IN  slice(filterBoolean([i \in 1..Len(all) |-> KeywordItem(all[i])]),
              AmazonKeywordMax)

\* keywordTemplates.Flipkart
FlipkartKeywords(r) ==
    filterBoolean(<<Get(r, "category"), Get(r, "brand"), Get(r, "gender"),
                    Get(r, "pattern")>>)

\* keywordTemplates.Meesho
MeeshoKeywords(r) ==
    filterBoolean(<<Get(r, "category"), Get(r, "product_name"), Wholesale, Trending>>)

\* keywordTemplates.Myntra
MyntraKeywords(r) ==
    filterBoolean(<<Get(r, "brand"), Get(r, "category"), Get(r, "occasion"),
                    Get(r, "fit")>>)

keywordTemplates(p, r) ==
    CASE p = "Amazon" -> AmazonKeywords(r)
      [] p = "Flipkart" -> FlipkartKeywords(r)
      [] p = "Meesho" -> MeeshoKeywords(r)
      [] p = "Myntra" -> MyntraKeywords(r)

\* Mutant of Price: the chain without its final || "".
PriceNoDefault(r) == Or(Or(Get(r, "price"), Get(r, "selling_price")), Get(r, "mrp"))

\* The three passthrough fields of generateListing.
Price(r) == Or(Or(Or(Get(r, "price"), Get(r, "selling_price")), Get(r, "mrp")), <<>>)

SKU(r) == Or(Or(Or(Get(r, "sku"), Get(r, "SKU")), Get(r, "Seller SKU")), <<>>)

HSN(r) == Or(Or(Get(r, "hsn"), Get(r, "hsn_code")), <<>>)

\* The names of the computed fields, in the order the object literal gives them.
ListingFields ==
    {"Platform", "Title", "BulletPoints", "Description", "SearchKeywords",
     "Price", "SKU", "HSN"}

\* The enum value as the string it is: "Amazon", "Flipkart", "Meesho", "Myntra".
PlatformName(p) ==
    CASE p = "Amazon" -> <<"A","m","a","z","o","n">>
      [] p = "Flipkart" -> <<"F","l","i","p","k","a","r","t">>
      [] p = "Meesho" -> <<"M","e","e","s","h","o">>
      [] p = "Myntra" -> <<"M","y","n","t","r","a">>

\* generateListing(row, platform)
generateListing(r, p) ==
    [Platform |-> PlatformName(p),
     Title |-> titleTemplates(p, r),
     BulletPoints |-> join(bulletTemplates(p, r), BarSep),
     Description |-> descriptionTemplates(p, r),
     SearchKeywords |-> join(keywordTemplates(p, r), CommaSep),
     Price |-> Price(r),
     SKU |-> SKU(r),
     HSN |-> HSN(r)]

\* Mutant of Merge: { ...generateListing(row, platform), ...row }.
MergeRowWins(r, l) ==
    [c \in DOMAIN r \cup DOMAIN l |-> IF c \in DOMAIN r THEN r[c] ELSE l[c]]

\* { ...row, ...generateListing(row, platform) }: the later spread wins.
Merge(r, l) ==
    [c \in DOMAIN r \cup DOMAIN l |-> IF c \in DOMAIN l THEN l[c] ELSE r[c]]

\* platforms.map((platform) => ({ ...row, ...generateListing(row, platform) }))
ExpandRow(r, ps) == [j \in 1..Len(ps) |-> Merge(r, generateListing(r, ps[j]))]

\* Mutant of enrichCatalog: rows without columns are skipped.
RECURSIVE enrichCatalogSkipEmpty(_, _)
enrichCatalogSkipEmpty(rs, ps) ==
    IF rs = <<>> THEN <<>>
    ELSE (IF DOMAIN Head(rs) = {} THEN <<>> ELSE ExpandRow(Head(rs), ps))
         \o enrichCatalogSkipEmpty(Tail(rs), ps)

\* Mutant of enrichCatalog: the loops are swapped, platforms outside, rows inside.
RECURSIVE enrichCatalogByPlatform(_, _)
enrichCatalogByPlatform(rs, ps) ==
    IF ps = <<>> THEN <<>>
    ELSE [i \in 1..Len(rs) |-> Merge(rs[i], generateListing(rs[i], Head(ps)))]
         \o enrichCatalogByPlatform(rs, Tail(ps))

\* rows.flatMap(...)
RECURSIVE enrichCatalog(_, _)
enrichCatalog(rs, ps) ==
    IF rs = <<>> THEN <<>>
    ELSE ExpandRow(Head(rs), ps) \o enrichCatalog(Tail(rs), ps)

\* generateListing(row, platform) on objects: the object literal it returns is
\* a new object; the row is only read.
generateListingOnHeap(h, ref, p) ==
    [heap |-> Append(h, generateListing(h[ref], p)), ref |-> Len(h) + 1]

\* Mutant of ExpandRowOnHeap: Object.assign(row, generateListing(row, platform)),
\* which writes the computed fields into the row and returns the row.
RECURSIVE ExpandRowAssignOnHeap(_, _, _)
ExpandRowAssignOnHeap(h, ref, ps) ==
    IF ps = <<>> THEN [heap |-> h, refs |-> <<>>]
    ELSE LET made == generateListingOnHeap(h, ref, Head(ps))
             merged == [made.heap EXCEPT ![ref] = Merge(made.heap[ref], made.heap[made.ref])]
             rest == ExpandRowAssignOnHeap(merged, ref, Tail(ps))
         IN  [heap |-> rest.heap, refs |-> <<ref>> \o rest.refs]

\* platforms.map((platform) => ({ ...row, ...generateListing(row, platform) }))
\* on objects: each platform allocates the listing, then the merged record.
RECURSIVE ExpandRowOnHeap(_, _, _)
ExpandRowOnHeap(h, ref, ps) ==
    IF ps = <<>> THEN [heap |-> h, refs |-> <<>>]
    ELSE LET made == generateListingOnHeap(h, ref, Head(ps))
             merged == Append(made.heap, Merge(made.heap[ref], made.heap[made.ref]))
             rest == ExpandRowOnHeap(merged, ref, Tail(ps))
         IN  [heap |-> rest.heap, refs |-> <<Len(merged)>> \o rest.refs]

\* rows.flatMap(...) on objects: the rows array is read, a new array returned.
RECURSIVE enrichCatalogOnHeap(_, _, _)
enrichCatalogOnHeap(h, refs, ps) ==
    IF refs = <<>> THEN [heap |-> h, refs |-> <<>>]
    ELSE LET first == ExpandRowOnHeap(h, Head(refs), ps)
             rest == enrichCatalogOnHeap(first.heap, Tail(refs), ps)
         IN  [heap |-> rest.heap, refs |-> first.refs \o rest.refs]

-----------------------------------------------------------------------------
(* The CatalogAssistant component: its state and its handlers' texts.      *)

\* DEFAULT_PLATFORMS, the initial value of the platforms state.
DEFAULT_PLATFORMS == <<"Amazon", "Flipkart", "Meesho", "Myntra">>

\* `${n}` for a length n: the decimal numeral.
RECURSIVE NumberToString(_)
NumberToString(n) ==
    LET digits == <<"0", "1", "2", "3", "4", "5", "6", "7", "8", "9">>
    IN  IF n < 10 THEN <<digits[n + 1]>>
        ELSE NumberToString(n \div 10) \o <<digits[(n % 10) + 1]>>

\* The texts of the status line and of the progress summaries, by handler;
\* a template is given as the text before and the text after its ${...}, and
\* the ellipsis U+2026 is kept as one atom.
AssistantText ==
    [ellipsis |-> <<"U+2026">>,
     parsing |->
         <<"P","a","r","s","i","n","g"," ">>,
     parsed |->
         <<"P","a","r","s","e","d"," ">>,
     parsedEnd |->
         <<" ","r","o","w","s","."," ","C","h","o","o","s","e"," ","m",
           "a","r","k","e","t","p","l","a","c","e","s"," ","a","n","d",
           " ","c","l","i","c","k"," ","G","e","n","e","r","a","t","e",
           " ","L","i","s","t","i","n","g","s",".">>,
     loaded |->
         <<"C","a","t","a","l","o","g"," ","s","h","e","e","t"," ","l",
           "o","a","d","e","d"," ","w","i","t","h"," ">>,
     loadedEnd |->
         <<" ","i","t","e","m","s",".">>,
     failed |->
         <<"F","a","i","l","e","d"," ","t","o"," ","p","a","r","s","e",
           " ","C","S","V",":"," ">>,
     uploadFirst |->
         <<"U","p","l","o","a","d"," ","y","o","u","r"," ","c","a","t",
           "a","l","o","g"," ","s","h","e","e","t"," ","f","i","r","s",
           "t",".">>,
     selectMarketplace |->
         <<"S","e","l","e","c","t"," ","a","t"," ","l","e","a","s","t",
           " ","o","n","e"," ","m","a","r","k","e","t","p","l","a","c",
           "e",".">>,
     generated |->
         <<"G","e","n","e","r","a","t","e","d"," ">>,
     generatedEnd |->
         <<" ","m","a","r","k","e","t","p","l","a","c","e","-","r","e",
           "a","d","y"," ","r","o","w","s",".">>,
     prepared |->
         <<"L","i","s","t","i","n","g","s"," ","p","r","e","p","a","r",
           "e","d"," ","f","o","r"," ">>,
     generateFirst |->
         <<"G","e","n","e","r","a","t","e"," ","l","i","s","t","i","n",
           "g","s"," ","b","e","f","o","r","e"," ","d","o","w","n","l",
           "o","a","d","i","n","g",".">>,
     exported |->
         <<"E","x","p","o","r","t","e","d"," ","e","n","r","i","c","h",
           "e","d"," ","c","a","t","a","l","o","g"," ","C","S","V",".">>]

\* prev.includes(item)
Includes(prev, item) == \E i \in DOMAIN prev : prev[i] = item

\* prev.filter((item) => item !== platform)
Without(prev, p) == SelectSeq(prev, LAMBDA item : item # p)

\* Mutant of togglePlatform: the platform is appended whether selected or not.
togglePlatformAppends(prev, p) == Append(prev, p)

\* The updater of togglePlatform: drop the platform if selected, else append it.
togglePlatform(prev, p) == IF Includes(prev, p) THEN Without(prev, p) ELSE Append(prev, p)

\* The rows kept from result.data: each line with its values trimmed
\* (value?.toString().trim() ?? "", the headers carrying no surrounding
\* whitespace), and only the lines with some non-empty value.
ParsedRows(data) ==
    LET entries(r) == [c \in DOMAIN r |-> IF r[c] = Undefined THEN <<>> ELSE trim(r[c])]
        some(r) == \E c \in DOMAIN r : Truthy(r[c])
    IN  SelectSeq([i \in DOMAIN data |-> entries(data[i])], some)

\* An outward call: the function called and the text given to it.
Call(fn, arg) == [fn |-> fn, arg |-> arg]

\* The component as mounted: the useState initial values, nothing in flight.
AssistantMounted ==
    /\ rawRows = <<>>
    /\ platforms = DEFAULT_PLATFORMS
    /\ uploadState = "idle"
    /\ message = <<>>
    /\ outputRows = <<>>
    /\ parsing = 0
    /\ calls = <<>>

\* The VoiceAgent component as mounted: no task, no log, nothing spoken, and
\* the empty task list passed to onTaskUpdate by the first effect.
VoiceMounted ==
    /\ tasks = <<>>
    /\ logs = <<>>
    /\ utterance = <<>>
    /\ reported = <<>>

-----------------------------------------------------------------------------
(* The VoiceAgent component: string methods and the texts of processCommand *)

\* s.toLowerCase(), on the characters of the Latin alphabet.
toLowerCase(s) ==
    LET upper == <<"A","B","C","D","E","F","G","H","I","J","K","L","M","N","O","P","Q","R","S","T","U","V","W","X","Y","Z">>
        lower == <<"a","b","c","d","e","f","g","h","i","j","k","l","m","n","o","p","q","r","s","t","u","v","w","x","y","z">>
    IN  [i \in 1..Len(s) |->
            IF \E k \in DOMAIN upper : upper[k] = s[i]
            THEN lower[CHOOSE k \in DOMAIN upper : upper[k] = s[i]]
            ELSE s[i]]

\* t occurs in s at position i.
MatchesAt(s, i, t) == i + Len(t) - 1 <= Len(s) /\ SubSeq(s, i, i + Len(t) - 1) = t

\* s.startsWith(t)
startsWith(s, t) == MatchesAt(s, 1, t)

\* s.includes(t), for strings
includes(s, t) == \E i \in 1..(Len(s) + 1) : MatchesAt(s, i, t)

\* s.split(sep) for a non-empty string sep: cut at every occurrence, from the
\* left; "" gives [""].
RECURSIVE splitOn(_, _)
splitOn(s, sep) ==
    LET hits == {i \in 1..Len(s) : MatchesAt(s, i, sep)}
    IN  IF hits = {}
        THEN <<s>>
        ELSE LET i == CHOOSE k \in hits : \A j \in hits : k <= j
             IN  <<SubSeq(s, 1, i - 1)>> \o splitOn(SubSeq(s, i + Len(sep), Len(s)), sep)

\* s without its characters i .. i + n - 1.
Remove(s, i, n) == SubSeq(s, 1, i - 1) \o SubSeq(s, i + n, Len(s))

\* The words processCommand looks for and the texts it speaks and logs; a
\* template is given as the texts around its ${...}.
VoiceText ==
    [createTask |->
         <<"c","r","e","a","t","e"," ","t","a","s","k">>,
     addTask |->
         <<"a","d","d"," ","t","a","s","k">>,
     markTask |->
         <<"m","a","r","k"," ","t","a","s","k">>,
     updateTask |->
         <<"u","p","d","a","t","e"," ","t","a","s","k">>,
     listTasks |->
         <<"l","i","s","t"," ","t","a","s","k","s">>,
     done |->
         <<"d","o","n","e">>,
     complete |->
         <<"c","o","m","p","l","e","t","e">>,
     as |->
         <<"a","s">>,
     with |->
         <<" ","w","i","t","h"," ">>,
     untitled |->
         <<"U","n","t","i","t","l","e","d"," ","t","a","s","k">>,
     taskQuote |->
         <<"T","a","s","k"," ","\"">>,
     quoteCreated |->
         <<"\""," ","c","r","e","a","t","e","d",".">>,
     addedTask |->
         <<"A","d","d","e","d"," ","t","a","s","k",":"," ">>,
     markedSpeech |->
         <<"M","a","r","k","e","d"," ","m","a","t","c","h","i","n","g",
           " ","t","a","s","k","s"," ","a","s"," ","d","o","n","e",".">>,
     markedQuote |->
         <<"M","a","r","k","e","d"," ","t","a","s","k","s"," ","m","a",
           "t","c","h","i","n","g"," ","\"">>,
     quoteAsDone |->
         <<"\""," ","a","s"," ","d","o","n","e",".">>,
     updatedSpeech |->
         <<"U","p","d","a","t","e","d"," ","t","a","s","k"," ","n","o",
           "t","e","s"," ","f","o","r"," ","i","t","e","m","s"," ","m",
           "a","t","c","h","i","n","g"," ">>,
     updatedQuote |->
         <<"U","p","d","a","t","e","d"," ","t","a","s","k"," ","\"">>,
     quoteWithNotes |->
         <<"\""," ","w","i","t","h"," ","n","e","w"," ","n","o","t",
           "e","s",".">>,
     noTasks |->
         <<"Y","o","u"," ","h","a","v","e"," ","n","o"," ","t","a","s",
           "k","s"," ","a","t"," ","t","h","e"," ","m","o","m","e","n",
           "t",".">>,
     dotSep |->
         <<"."," ">>,
     colonSep |->
         <<":"," ">>,
     openParen |->
         <<" ","(">>,
     closeParen |->
         <<")">>,
     defaultResponse |->
         <<"I","'","m"," ","r","e","a","d","y"," ","t","o"," ","m","a",
           "n","a","g","e"," ","c","a","t","a","l","o","g"," ","u","p",
           "d","a","t","e","s","."," ","T","r","y"," ","c","o","m","m",
           "a","n","d","s"," ","l","i","k","e"," ","'","C","r","e","a",
           "t","e"," ","t","a","s","k"," ","u","p","d","a","t","e"," ",
           "A","m","a","z","o","n"," ","l","i","s","t","i","n","g","s",
           "'"," ","o","r"," ","a","s","k"," ","m","e"," ","t","o"," ",
           "s","u","m","m","a","r","i","s","e"," ","p","e","n","d","i",
           "n","g"," ","w","o","r","k",".">>,
     pending |->
         <<"p","e","n","d","i","n","g">>,
     inProgress |->
         <<"i","n","-","p","r","o","g","r","e","s","s">>]

\* message.replace(/^(create|add) task/i, "")
RemoveCreatePrefix(text) ==
    LET lower == toLowerCase(text)
    IN  IF startsWith(lower, VoiceText.createTask) THEN Remove(text, 1, Len(VoiceText.createTask))
        ELSE IF startsWith(lower, VoiceText.addTask) THEN Remove(text, 1, Len(VoiceText.addTask))
        ELSE text

\* s.replace(/mark task/i, ""): the first occurrence, whatever its case.
RemoveMarkTask(s) ==
    LET lower == toLowerCase(s)
        hits == {i \in 1..Len(s) : MatchesAt(lower, i, VoiceText.markTask)}
    IN  IF hits = {} THEN s
        ELSE Remove(s, CHOOSE k \in hits : \A j \in hits : k <= j, Len(VoiceText.markTask))

\* The length of the match of /(as)?\s?(done|complete)/i that starts at i, or 0:
\* the optional groups are tried present first.
DoneMatchLen(s, i) ==
    LET lower == toLowerCase(s)
        word(k) == IF MatchesAt(lower, k, VoiceText.done) THEN Len(VoiceText.done)
                   ELSE IF MatchesAt(lower, k, VoiceText.complete) THEN Len(VoiceText.complete)
                   ELSE 0
        as == IF MatchesAt(lower, i, VoiceText.as) THEN Len(VoiceText.as) ELSE 0
        space(k) == IF k <= Len(s) /\ s[k] \in Whitespace THEN 1 ELSE 0
        try(a, w) == IF word(i + a + w) > 0 THEN a + w + word(i + a + w) ELSE 0
    IN  IF try(as, space(i + as)) > 0 THEN try(as, space(i + as))
        ELSE IF try(as, 0) > 0 THEN try(as, 0)
        ELSE IF try(0, space(i)) > 0 THEN try(0, space(i))
        ELSE try(0, 0)

\* s.replace(/(as)?\s?(done|complete)/i, ""): the leftmost match.
RemoveAsDone(s) ==
    LET hits == {i \in 1..Len(s) : DoneMatchLen(s, i) > 0}
    IN  IF hits = {} THEN s
        ELSE LET i == CHOOSE k \in hits : \A j \in hits : k <= j
             IN  Remove(s, i, DoneMatchLen(s, i))

\* `${task.title}: ${task.status}${task.notes ? ` (${task.notes})` : ""}`
TaskLine(task) ==
    LET status == CASE task.status = "pending" -> VoiceText.pending
                    [] task.status = "in-progress" -> VoiceText.inProgress
                    [] task.status = "done" -> VoiceText.done
    IN  task.title \o VoiceText.colonSep \o status
            \o (IF Truthy(task.notes)
                THEN VoiceText.openParen \o task.notes \o VoiceText.closeParen
                ELSE <<>>)

\* The branch of processCommand for "create task" / "add task".
createTask(text, ts) ==
    LET title == Or(trim(RemoveCreatePrefix(text)), VoiceText.untitled)
        task == [id |-> Len(ts) + 1, title |-> title, status |-> "pending",
                 notes |-> Undefined]
    IN  [tasks |-> Append(ts, task),
         speech |-> VoiceText.taskQuote \o title \o VoiceText.quoteCreated,
         reply |-> VoiceText.addedTask \o title]

\* The branch of processCommand for "mark task ... done".
markTask(text, ts) ==
    LET identifier == trim(RemoveAsDone(RemoveMarkTask(text)))
    IN  [tasks |-> [k \in DOMAIN ts |->
                       IF includes(toLowerCase(ts[k].title), toLowerCase(identifier))
                       THEN [ts[k] EXCEPT !.status = "done"]
                       ELSE ts[k]],
         speech |-> VoiceText.markedSpeech,
         reply |-> VoiceText.markedQuote \o identifier \o VoiceText.quoteAsDone]

\* The branch of processCommand for "update task".
updateTask(text, ts) ==
    LET rest == Tail(splitOn(text, Space))
        body == join(rest, Space)
        parts == splitOn(body, VoiceText.with)
        identifier == Head(parts)
        notes == join(Tail(parts), VoiceText.with)
    IN  [tasks |-> [k \in DOMAIN ts |->
                       IF includes(toLowerCase(ts[k].title), toLowerCase(trim(identifier)))
                       THEN [ts[k] EXCEPT !.status = "in-progress",
                                          !.notes = Or(notes, ts[k].notes)]
                       ELSE ts[k]],
         speech |-> VoiceText.updatedSpeech \o identifier \o Dot,
         reply |-> VoiceText.updatedQuote \o trim(identifier) \o VoiceText.quoteWithNotes]

\* The branch of processCommand for "list tasks".
listTasks(ts) ==
    LET summary == IF ts = <<>> THEN VoiceText.noTasks
                   ELSE join([k \in DOMAIN ts |-> TaskLine(ts[k])], VoiceText.dotSep)
    IN  [tasks |-> ts, speech |-> summary, reply |-> summary]

\* processCommand(message) on the task list ts: the new task list, the text
\* given to speak and the text logged for the assistant.
processCommand(text, ts) ==
    LET lower == toLowerCase(text)
    IN  IF startsWith(lower, VoiceText.createTask) \/ startsWith(lower, VoiceText.addTask)
        THEN createTask(text, ts)
        ELSE IF /\ startsWith(lower, VoiceText.markTask)
                /\ (includes(lower, VoiceText.done) \/ includes(lower, VoiceText.complete))
        THEN markTask(text, ts)
        ELSE IF startsWith(lower, VoiceText.updateTask)
        THEN updateTask(text, ts)
        ELSE IF includes(lower, VoiceText.listTasks)
        THEN listTasks(ts)
        ELSE [tasks |-> ts, speech |-> VoiceText.defaultResponse, reply |-> VoiceText.defaultResponse]

-----------------------------------------------------------------------------
(* Inputs of the calls under check                                         *)

\* Every column name catalog.ts reads.
ColumnNames ==
    {"brand", "Brand", "vendor", "product_name", "title", "Name", "key_feature",
     "feature", "Features", "material", "size", "Size", "style", "pattern",
     "gender", "category", "segment", "features", "usage", "usp",
     "UniqueSellingPoint", "description", "highlight", "Highlights", "style_tip",
     "Styling", "care", "care_instructions", "ProductType", "tone",
     "country_of_origin", "origin", "margin", "wholesale_price", "theme",
     "collection", "keywords", "search_terms", "sub_category", "color", "season",
     "occasion", "fit", "price", "selling_price", "mrp", "sku", "SKU",
     "Seller SKU", "hsn", "hsn_code"}

\* The columns the four title templates read.
TitleColumns ==
    {"brand", "Brand", "vendor", "product_name", "title", "Name", "key_feature",
     "feature", "Features", "material", "size", "Size", "style", "pattern",
     "gender", "category", "segment"}

\* The columns of the Amazon brand chain and of the three passthrough chains.
ChainColumns ==
    {"brand", "Brand", "vendor", "price", "selling_price", "mrp", "sku", "SKU",
     "Seller SKU", "hsn", "hsn_code"}

\* The columns the Amazon and Meesho bullet templates and the Meesho title read.
BulletColumns ==
    {"features", "Features", "material", "usage", "highlight", "Highlights",
     "product_name", "title", "category", "segment"}

\* The columns keywordTemplates.Amazon reads.
KeywordColumns ==
    {"keywords", "search_terms", "category", "sub_category", "material", "color",
     "season"}

\* The columns the four description templates read.
DescriptionColumns ==
    {"product_name", "title", "category", "ProductType", "tone",
     "country_of_origin", "origin", "margin", "wholesale_price", "theme",
     "collection"}

\* Columns of the rows given to enrichCatalog: the eight computed names, a
\* column the templates read and a column they do not.
EnrichColumns == ListingFields \cup {"price", "notes"}

\* Most columns a row holds, for rows over every column and over the title columns.
MaxCols == 2
\* Most columns a row holds, for rows over one group of alias chains.
MaxChainCols == 3
\* Length of the long value: two of them overflow every title ceiling.
LongLen == 100
\* Most rows and most platforms given to enrichCatalog.
MaxRows == 2
MaxPlatforms == 2

ValueX == <<"X">>
ValueY == <<"Y">>
\* " "
ValueBlank == <<" ">>
\* " Y,Z. "
ValuePadded == <<" ","Y",",","Z","."," ">>
\* "Soft•Durable,Light"
ValueSoft == <<"S","o","f","t",Bullet,"D","u","r","a","b","l","e",",","L","i","g","h","t">>
\* " a, ,b|c•d\ne,f,"
ValueMany == <<" ","a",","," ",",","b","|","c",Bullet,"d","\n","e",",","f",",">>
\* LongLen characters, words of six letters with a space between them
ValueLong == [i \in 1..LongLen |-> IF i % 7 = 0 THEN " " ELSE "w"]

\* "red"
ValueRed == <<"r","e","d">>
\* "red,red"
ValueRedRed == <<"r","e","d",",","r","e","d">>
\* "k,k,...,k": sixteen keywords, one more than the cap keeps
ValueSixteen == [i \in 1..31 |-> IF i % 2 = 0 THEN "," ELSE "k"]

RECURSIVE ColumnSets(_, _)
ColumnSets(cols, k) ==
    IF k = 0 THEN {{}}
    ELSE LET prev == ColumnSets(cols, k - 1)
         IN  prev \cup {S \cup {c} : S \in prev, c \in cols}

\* The rows with at most k of the columns cols, their values among vals.
RowsOver(cols, vals, k) == UNION {[S -> vals] : S \in ColumnSets(cols, k)}

\* The sequences over S of length at most n.
SeqsUpTo(S, n) == UNION {[1..m -> S] : m \in 0..n}

\* A row that has every computed name as a column of its own, and more.
CollidingRow == [c \in EnrichColumns |-> IF c = "price" THEN ValueY ELSE ValueX]

\* The rows given to enrichCatalog: no column, one column, or every column.
EnrichRows == RowsOver({"Title", "price", "notes"}, {ValueX}, 1) \cup {CollidingRow}

\* No object is tracked: the call is followed by its values alone.
HeapIdle == heap = <<>> /\ rowsRef = <<>> /\ outRef = <<>>

ListingInputs(rowSet) ==
    /\ pc = "start"
    /\ HeapIdle
    /\ AssistantMounted
    /\ VoiceMounted
    /\ row \in rowSet
    /\ platform \in ListingPlatform
    /\ listing = <<>>
    /\ rows = <<>>
    /\ plats = <<>>
    /\ enriched = <<>>

\* generateListing on rows over every column.
InitListing == ListingInputs(RowsOver(ColumnNames, {<<>>, ValuePadded}, MaxCols))

\* generateListing on rows over the title columns, with blank and long values.
InitTitle ==
    ListingInputs(RowsOver(TitleColumns,
                           {<<>>, ValueBlank, ValuePadded, ValueLong}, MaxCols))

\* generateListing on rows over the alias chains, with two distinct values.
InitChains ==
    ListingInputs(RowsOver(ChainColumns,
                           {<<>>, ValueBlank, ValueX, ValueY}, MaxChainCols))

\* generateListing on rows over the bullet columns, with delimited values.
InitBullets ==
    ListingInputs(RowsOver(BulletColumns,
                           {<<>>, ValueBlank, ValueX, ValueSoft, ValueMany},
                           MaxChainCols))

\* generateListing on rows over the keyword columns, with comma lists.
InitKeywords ==
    ListingInputs(RowsOver(KeywordColumns,
                           {<<>>, ValueBlank, ValuePadded, ValueRed, ValueRedRed,
                            ValueSixteen},
                           MaxChainCols))

\* generateListing on rows over the description columns.
InitDescription ==
    ListingInputs(RowsOver(DescriptionColumns,
                           {<<>>, ValueBlank, ValueX, ValueY}, MaxChainCols))

InitEnrich ==
    /\ pc = "start"
    /\ HeapIdle
    /\ AssistantMounted
    /\ VoiceMounted
    /\ rows \in SeqsUpTo(EnrichRows, MaxRows)
    /\ plats \in SeqsUpTo(ListingPlatform, MaxPlatforms)
    /\ enriched = <<>>
    /\ row = <<>>
    /\ platform = "Amazon"
    /\ listing = <<>>

\* A caller calls generateListing(row, platform).
CallGenerateListing ==
    /\ pc = "start"
    /\ listing' = generateListing(row, platform)
    /\ pc' = "done"
    /\ UNCHANGED <<row, platform, rows, plats, enriched, heapVars, appVars, voiceVars>>

\* A caller calls enrichCatalog(rows, platforms).
CallEnrichCatalog ==
    /\ pc = "start"
    /\ enriched' = enrichCatalog(rows, plats)
    /\ pc' = "done"
    /\ UNCHANGED <<row, platform, listing, rows, plats, heapVars, appVars, voiceVars>>

\* No call is followed by its values: the objects alone are tracked.
CallIdle ==
    /\ row = <<>>
    /\ platform = "Amazon"
    /\ listing = <<>>
    /\ rows = <<>>
    /\ enriched = <<>>

\* The rows whose objects a call is given: a plain row, and a record
\* generateListing returned, which enrichCatalog maps to an equal record.
FrameRows == {[notes |-> ValueX], generateListing(<<>>, "Myntra")}

InitFrame ==
    /\ pc = "start"
    /\ CallIdle
    /\ AssistantMounted
    /\ VoiceMounted
    /\ heap \in SeqsUpTo(FrameRows, MaxRows)
    /\ rowsRef \in SeqsUpTo(DOMAIN heap, MaxRows)
    /\ plats \in SeqsUpTo(ListingPlatform, MaxPlatforms)
    /\ outRef = <<>>

\* A caller calls generateListing(row, platform) on an object of the heap.
CallGenerateListingOnHeap ==
    /\ pc = "start"
    /\ \E ref \in DOMAIN heap, p \in ListingPlatform :
           LET result == generateListingOnHeap(heap, ref, p)
           IN  /\ heap' = result.heap
               /\ outRef' = <<result.ref>>
    /\ pc' = "done"
    /\ UNCHANGED <<callVars, rowsRef, appVars, voiceVars>>

\* A caller calls enrichCatalog(rows, platforms) on an array of objects.
CallEnrichCatalogOnHeap ==
    /\ pc = "start"
    /\ LET result == enrichCatalogOnHeap(heap, rowsRef, plats)
       IN  /\ heap' = result.heap
           /\ outRef' = result.refs
    /\ pc' = "done"
    /\ UNCHANGED <<callVars, rowsRef, appVars, voiceVars>>

NextFrame == CallGenerateListingOnHeap \/ CallEnrichCatalogOnHeap

NextListing == CallGenerateListing

NextEnrich == CallEnrichCatalog

SpecListing == InitListing /\ [][NextListing]_vars

SpecTitle == InitTitle /\ [][NextListing]_vars

SpecChains == InitChains /\ [][NextListing]_vars

SpecBullets == InitBullets /\ [][NextListing]_vars

SpecKeywords == InitKeywords /\ [][NextListing]_vars

SpecDescription == InitDescription /\ [][NextListing]_vars

SpecFrame == InitFrame /\ [][NextFrame]_vars

SpecEnrich == InitEnrich /\ [][NextEnrich]_vars

-----------------------------------------------------------------------------
(* The CatalogAssistant component: its events.                             *)

\* At most this many Papa.parse calls are in flight.
MaxParsing == 1

\* A sheet has at most this many lines.
MaxUploadRows == 1

\* "catalog.csv", the name of the uploaded file.
FileName ==
    <<"c","a","t","a","l","o","g",".","c","s","v">>

\* "Unable to read", the message of a parse error.
ParseFailure ==
    <<"U","n","a","b","l","e"," ","t","o"," ","r","e","a","d">>

\* The result.data a parse can complete with: its lines are an all-blank line
\* or a line with one padded value.
UploadData == SeqsUpTo({[notes |-> ValueBlank], [Title |-> ValuePadded]}, MaxUploadRows)

\* handleFile(file): the synchronous part, up to the Papa.parse call.
HandleFile ==
    /\ parsing < MaxParsing
    /\ uploadState' = "processing"
    /\ message' = AssistantText.parsing \o FileName \o AssistantText.ellipsis
    /\ parsing' = parsing + 1
    /\ calls' = <<Call("Papa.parse", FileName)>>
    /\ UNCHANGED <<rawRows, platforms, outputRows>>

\* The complete callback of Papa.parse.
ParseComplete ==
    /\ parsing > 0
    /\ \E data \in UploadData :
           LET parsed == ParsedRows(data)
               count == NumberToString(Len(parsed))
           IN  /\ rawRows' = parsed
               /\ message' = AssistantText.parsed \o count \o AssistantText.parsedEnd
               /\ calls' = <<Call("onProgress",
                                  AssistantText.loaded \o count \o AssistantText.loadedEnd)>>
    /\ uploadState' = "ready"
    /\ parsing' = parsing - 1
    /\ UNCHANGED <<platforms, outputRows>>

\* The error callback of Papa.parse.
ParseError ==
    /\ parsing > 0
    /\ uploadState' = "idle"
    /\ message' = AssistantText.failed \o ParseFailure
    /\ parsing' = parsing - 1
    /\ calls' = <<>>
    /\ UNCHANGED <<rawRows, platforms, outputRows>>

\* A click on a marketplace button: togglePlatform(platform).
TogglePlatform ==
    /\ \E p \in ListingPlatform : platforms' = togglePlatform(platforms, p)
    /\ calls' = <<>>
    /\ UNCHANGED <<rawRows, uploadState, message, outputRows, parsing>>

\* Mutant of HandleGenerate: the platforms.length === 0 check is missing.
HandleGenerateNoPlatformCheck ==
    /\ IF rawRows = <<>>
       THEN /\ message' = AssistantText.uploadFirst
            /\ calls' = <<>>
            /\ UNCHANGED outputRows
       ELSE LET generated == enrichCatalog(rawRows, platforms)
            IN  /\ outputRows' = generated
                /\ message' = AssistantText.generated
                                  \o NumberToString(Len(generated))
                                  \o AssistantText.generatedEnd
                /\ calls' = <<Call("enrichCatalog", <<>>),
                              Call("onProgress",
                                   AssistantText.prepared
                                       \o join([j \in DOMAIN platforms |->
                                                   PlatformName(platforms[j])], CommaSep)
                                       \o Dot)>>
    /\ UNCHANGED <<rawRows, platforms, uploadState, parsing>>

\* A click on Generate Listings: handleGenerate().
HandleGenerate ==
    /\ IF rawRows = <<>>
       THEN /\ message' = AssistantText.uploadFirst
            /\ calls' = <<>>
            /\ UNCHANGED outputRows
       ELSE IF platforms = <<>>
       THEN /\ message' = AssistantText.selectMarketplace
            /\ calls' = <<>>
            /\ UNCHANGED outputRows
       ELSE LET generated == enrichCatalog(rawRows, platforms)
            IN  /\ outputRows' = generated
                /\ message' = AssistantText.generated
                                  \o NumberToString(Len(generated))
                                  \o AssistantText.generatedEnd
                /\ calls' = <<Call("enrichCatalog", <<>>),
                              Call("onProgress",
                                   AssistantText.prepared
                                       \o join([j \in DOMAIN platforms |->
                                                   PlatformName(platforms[j])], CommaSep)
                                       \o Dot)>>
    /\ UNCHANGED <<rawRows, platforms, uploadState, parsing>>

\* A click on Download CSV: downloadCsv().  The file goes to the browser.
DownloadCsv ==
    /\ IF outputRows = <<>>
       THEN /\ message' = AssistantText.generateFirst
            /\ calls' = <<>>
       ELSE /\ calls' = <<Call("saveAs", NumberToString(Len(outputRows))),
                          Call("onProgress", AssistantText.exported)>>
            /\ UNCHANGED message
    /\ UNCHANGED <<rawRows, platforms, uploadState, outputRows, parsing>>

\* Both components are mounted, and no call of the template engine is followed.
InitMounted ==
    /\ pc = "start"
    /\ CallIdle
    /\ plats = <<>>
    /\ HeapIdle
    /\ AssistantMounted
    /\ VoiceMounted

NextAssistant ==
    /\ \/ HandleFile
       \/ ParseComplete
       \/ ParseError
       \/ TogglePlatform
       \/ HandleGenerate
       \/ DownloadCsv
    /\ UNCHANGED <<pc, callVars, heapVars, voiceVars>>

SpecAssistant == InitMounted /\ [][NextAssistant]_vars

-----------------------------------------------------------------------------
(* The VoiceAgent component: its events.                                   *)

\* At most this many messages are handled.
MaxMessages == 3

\* The messages typed or recognised: "Create task Myntra listing", "add task",
\* "Update task Myntra listing with photos", "Update task with photos",
\* "Mark task Myntra listing as done", "List tasks", "hello" and a blank one.
Messages ==
    {<<"C","r","e","a","t","e"," ","t","a","s","k"," ","M","y","n",
       "t","r","a"," ","l","i","s","t","i","n","g">>,
     <<"a","d","d"," ","t","a","s","k">>,
     <<"U","p","d","a","t","e"," ","t","a","s","k"," ","M","y","n",
       "t","r","a"," ","l","i","s","t","i","n","g"," ","w","i","t",
       "h"," ","p","h","o","t","o","s">>,
     <<"U","p","d","a","t","e"," ","t","a","s","k"," ","w","i","t",
       "h"," ","p","h","o","t","o","s">>,
     <<"M","a","r","k"," ","t","a","s","k"," ","M","y","n","t","r",
       "a"," ","l","i","s","t","i","n","g"," ","a","s"," ","d","o",
       "n","e">>,
     <<"L","i","s","t"," ","t","a","s","k","s">>,
     <<"h","e","l","l","o">>,
     <<" "," ">>}

\* A log entry; its id and timestamp come from the clock and are never read.
LogEntry(role, text) == [role |-> role, message |-> text]

\* handleUserMessage(message): a blank message is dropped; any other is logged,
\* processed, answered aloud and in the log, and a changed task list is passed
\* to onTaskUpdate by the effect on tasks.
HandleUserMessage ==
    /\ Len(logs) < 2 * MaxMessages
    /\ \E text \in Messages :
           IF trim(text) = <<>>
           THEN UNCHANGED voiceVars
           ELSE LET result == processCommand(text, tasks)
                IN  /\ tasks' = result.tasks
                    /\ utterance' = result.speech
                    /\ logs' = logs \o <<LogEntry("user", text),
                                         LogEntry("assistant", result.reply)>>
                    /\ reported' = result.tasks
    /\ UNCHANGED <<pc, callVars, heapVars, appVars>>

NextVoice == HandleUserMessage

SpecVoice == InitMounted /\ [][NextVoice]_vars

-----------------------------------------------------------------------------
(* Definitions the claims are stated with.  They restate the documented    *)
(* rules on their own terms and use none of the template operators.        *)

\* The value of the first alias, in order, that the row holds non-empty;
\* the default when there is none.
FirstNonEmpty(r, aliases, default) ==
    LET hits == {i \in 1..Len(aliases) :
                    aliases[i] \in DOMAIN r /\ r[aliases[i]] # <<>>}
    IN  IF hits = {}
        THEN default
        ELSE r[aliases[CHOOSE i \in hits : \A j \in hits : i <= j]]

\* The row without its columns whose value is the empty string.
StripEmpty(r) == [c \in {d \in DOMAIN r : r[d] # <<>>} |-> r[c]]

\* A defined string: a sequence of characters, none of them the undefined mark.
IsString(v) ==
    /\ v \in Seq(STRING)
    /\ \A i \in 1..Len(v) : v[i] # Undefined[1]

IsPrefix(s, t) == Len(s) <= Len(t) /\ s = SubSeq(t, 1, Len(s))

\* The first n elements of a sequence, all of it when it is shorter.
FirstN(s, n) == [i \in 1..(IF Len(s) < n THEN Len(s) ELSE n) |-> s[i]]

\* s without its leading and trailing whitespace.
Stripped(s) ==
    LET keep == {i \in 1..Len(s) : s[i] \notin Whitespace}
    IN  IF keep = {}
        THEN <<>>
        ELSE SubSeq(s, CHOOSE i \in keep : \A j \in keep : i <= j,
                       CHOOSE i \in keep : \A j \in keep : j <= i)

\* The pieces of s between the characters of delims, in order.
Fragments(s, delims) ==
    LET cuts == {0, Len(s) + 1} \cup {i \in 1..Len(s) : s[i] \in delims}
        Cut(k) == CHOOSE c \in cuts : Cardinality({d \in cuts : d < c}) = k
    IN  [k \in 1..(Cardinality(cuts) - 1) |-> SubSeq(s, Cut(k - 1) + 1, Cut(k) - 1)]

IsNonEmpty(s) == s # <<>>

\* The stripped pieces of s that are not empty, in order.
TrimmedFragments(s, delims) ==
    LET pieces == Fragments(s, delims)
    IN  SelectSeq([k \in 1..Len(pieces) |-> Stripped(pieces[k])], IsNonEmpty)

\* The index of the record of row i and platform j (both from 1) in the output.
IndexOf(i, j) == (i - 1) * Len(plats) + j

-----------------------------------------------------------------------------
(* Claims                                                                  *)

\* C1: enrichCatalog(rows, platforms) returns exactly
\* rows.length * platforms.length records, hence none when either is empty.
EnrichSizeLaw == pc = "done" => Len(enriched) = Len(rows) * Len(plats)

\* C1 witness: two rows, one of them without columns, and the same platform twice.
EnrichSizeWitness ==
    /\ pc = "done"
    /\ Len(rows) = 2
    /\ DOMAIN rows[1] = {}
    /\ Len(plats) = 2
    /\ plats[1] = plats[2]
    /\ Len(enriched) = 4

\* C2: the record at output index i*P + j is the one built from row i and
\* platform j, and its Platform field is that platform: row order is kept and
\* each row's platforms are contiguous, in the caller's order.
EnrichOrder ==
    pc = "done" =>
        \A i \in 1..Len(rows), j \in 1..Len(plats) :
            /\ IndexOf(i, j) \in DOMAIN enriched
            /\ enriched[IndexOf(i, j)] = Merge(rows[i], generateListing(rows[i], plats[j]))
            /\ enriched[IndexOf(i, j)]["Platform"] = PlatformName(plats[j])

\* C2 witness: two different rows and two different platforms.
EnrichOrderWitness ==
    /\ pc = "done"
    /\ Len(rows) = 2
    /\ Len(plats) = 2
    /\ rows[1] # rows[2]
    /\ plats[1] # plats[2]
    /\ enriched[2]["Platform"] = PlatformName(plats[2])
    /\ enriched[3]["Platform"] = PlatformName(plats[1])

\* C3: every record holds every column of its row and the 8 computed fields;
\* a column named as a computed field holds the computed value, every other
\* column keeps the row's value.
EnrichMerge ==
    pc = "done" =>
        \A i \in 1..Len(rows), j \in 1..Len(plats) :
            LET e == enriched[IndexOf(i, j)]
                l == generateListing(rows[i], plats[j])
            IN  /\ DOMAIN e = DOMAIN rows[i] \cup ListingFields
                /\ \A c \in ListingFields : e[c] = l[c]
                /\ \A c \in DOMAIN rows[i] \ ListingFields : e[c] = rows[i][c]

\* C3 witness: a row with columns Title and Price of its own, whose values the
\* record does not hold, and a column notes, whose value it keeps.
EnrichMergeWitness ==
    /\ pc = "done"
    /\ Len(rows) >= 1
    /\ Len(plats) >= 1
    /\ rows[1] = CollidingRow
    /\ enriched[1]["Title"] # rows[1]["Title"]
    /\ enriched[1]["Price"] = ValueY
    /\ rows[1]["Price"] = ValueX
    /\ enriched[1]["notes"] = ValueX

\* C4: for every platform and every row, the empty mapping included,
\* generateListing returns a record in which Platform, Title, BulletPoints,
\* Description, SearchKeywords, Price, SKU and HSN are all defined strings.
ListingTotal ==
    pc = "done" =>
        /\ DOMAIN listing = ListingFields
        /\ \A f \in ListingFields : IsString(listing[f])

\* C4 witness: the listing of the row without columns.
ListingTotalWitness ==
    /\ pc = "done"
    /\ DOMAIN row = {}
    /\ listing["Price"] = <<>>
    /\ listing["Title"] # <<>>

\* C5: an empty-string value and an absent key are indistinguishable: the
\* listing of a row equals the listing of the row without its empty columns.
EmptyIsAbsent == pc = "done" => listing = generateListing(StripEmpty(row), platform)

\* C5 witness: a row with an empty column and a non-empty one.
EmptyIsAbsentWitness ==
    /\ pc = "done"
    /\ \E c \in DOMAIN row : row[c] = <<>>
    /\ \E c \in DOMAIN row : row[c] # <<>>
    /\ StripEmpty(row) # row

\* "X | Product"
ClaimXProduct ==
    <<"X"," ","|"," ","P","r","o","d","u","c","t">>

\* C6: an alias chain resolves to the first alias, in the documented order,
\* that is present and non-empty, and to its default when none is: the Amazon
\* brand over (brand, Brand, vendor) default "Premium"; Price over (price,
\* selling_price, mrp), SKU over (sku, SKU, "Seller SKU") and HSN over (hsn,
\* hsn_code), default "", on every platform.  Brand "X" with Brand "Y" gives "X".
AliasChains ==
    pc = "done" =>
        /\ AmazonTitleParts(row)[1]
               = FirstNonEmpty(row, <<"brand", "Brand", "vendor">>, Premium)
        /\ listing["Price"] = FirstNonEmpty(row, <<"price", "selling_price", "mrp">>, <<>>)
        /\ listing["SKU"] = FirstNonEmpty(row, <<"sku", "SKU", "Seller SKU">>, <<>>)
        /\ listing["HSN"] = FirstNonEmpty(row, <<"hsn", "hsn_code">>, <<>>)
        /\ (platform = "Amazon" /\ DOMAIN row = {"brand", "Brand"}
                /\ row["brand"] = ValueX /\ row["Brand"] = ValueY)
               => listing["Title"] = ClaimXProduct

\* C6 witness: brand "X" and Brand "Y" on Amazon give the title "X | Product".
AliasChainsWitness ==
    /\ pc = "done"
    /\ platform = "Amazon"
    /\ DOMAIN row = {"brand", "Brand"}
    /\ row["brand"] = ValueX
    /\ row["Brand"] = ValueY
    /\ listing["Title"] = ClaimXProduct

\* The Amazon title as documented: each part trimmed first, the non-empty ones
\* joined with " | ", the first 180 characters kept.
ClaimedAmazonTitle(r) ==
    LET parts == <<FirstNonEmpty(r, <<"brand", "Brand", "vendor">>, Premium),
                   FirstNonEmpty(r, <<"product_name", "title", "Name">>, Product),
                   FirstNonEmpty(r, <<"key_feature", "feature", "Features", "material">>, <<>>),
                   FirstNonEmpty(r, <<"size", "Size">>, <<>>)>>
        kept == SelectSeq([k \in 1..4 |-> Stripped(parts[k])], IsNonEmpty)
    IN  FirstN(join(kept, <<" ", "|", " ">>), 180)

\* C7: the Amazon title is built by trimming each of the four parts first,
\* then joining only the non-empty ones with " | ", then keeping the first 180
\* characters; a whitespace-only part contributes no segment.
AmazonTitleTrimsThenFilters ==
    (pc = "done" /\ platform = "Amazon") => listing["Title"] = ClaimedAmazonTitle(row)

\* The ceilings the claim names.
ClaimedCeiling(p) ==
    CASE p = "Amazon" -> 180
      [] p = "Flipkart" -> 100
      [] p = "Meesho" -> 120
      [] p = "Myntra" -> 80

\* C8: the Title is a prefix of the untruncated composed title and never
\* longer than the platform ceiling (180, 100, 120, 80); an Amazon join longer
\* than 180 characters gives exactly its first 180.
TitleTruncation ==
    pc = "done" =>
        LET full == TitleComposed(platform, row)
        IN  /\ IsPrefix(listing["Title"], full)
            /\ Len(listing["Title"]) <= ClaimedCeiling(platform)
            /\ Len(full) <= ClaimedCeiling(platform) => listing["Title"] = full
            /\ (platform = "Amazon" /\ Len(full) > 180)
                   => /\ Len(listing["Title"]) = 180
                      /\ listing["Title"] = SubSeq(full, 1, 180)
                      /\ listing["Title"] # full

\* C8 witness: an Amazon join of more than 180 characters, cut to 180.
TitleTruncationWitness ==
    /\ pc = "done"
    /\ platform = "Amazon"
    /\ Len(AmazonTitleJoined(row)) > 180
    /\ Len(listing["Title"]) = 180

\* ["Trusted quality", "Curated for your boutique", "Ships fast"]
ClaimMeeshoDefaults ==
    <<<<"T","r","u","s","t","e","d"," ","q","u","a","l","i","t","y">>,
      <<"C","u","r","a","t","e","d"," ","f","o","r"," ","y","o","u","r"," ","b","o","u","t","i","q","u","e">>,
      <<"S","h","i","p","s"," ","f","a","s","t">>>>

\* "Trendy Look - Best Seller"
ClaimMeeshoEmptyTitle ==
    <<"T","r","e","n","d","y"," ","L","o","o","k"," ","-"," ","B","e","s","t"," ","S","e","l","l","e","r">>

\* The Meesho bullets as documented.
ClaimedMeeshoBullets(r) ==
    LET source == FirstNonEmpty(r, <<"highlight", "Highlights", "features">>, <<>>)
    IN  IF source = <<>>
        THEN ClaimMeeshoDefaults
        ELSE FirstN(TrimmedFragments(source, {"|", ",", Bullet, "\n"}), 4)

\* C9: Meesho bullets are the three defaults when highlight, Highlights and
\* features are all absent or empty (and the empty row's title is "Trendy Look
\* - Best Seller"); otherwise the fragments of the first non-empty of them,
\* split on |, comma, bullet or newline, trimmed, empties dropped, the first 4
\* at most, with no default substituted even for an empty list.
MeeshoBulletsRule ==
    (pc = "done" /\ platform = "Meesho") =>
        /\ MeeshoBullets(row) = ClaimedMeeshoBullets(row)
        /\ listing["BulletPoints"] = join(ClaimedMeeshoBullets(row), <<" ", "|", " ">>)
        /\ DOMAIN row = {} => listing["Title"] = ClaimMeeshoEmptyTitle

\* C9 witness: a non-empty source that leaves no bullet, with no default put in.
MeeshoBulletsWitness ==
    /\ pc = "done"
    /\ platform = "Meesho"
    /\ FirstNonEmpty(row, <<"highlight", "Highlights", "features">>, <<>>) = ValueBlank
    /\ listing["BulletPoints"] = <<>>

\* The Amazon bullets as documented.
ClaimedAmazonBullets(r) ==
    LET material == FirstNonEmpty(r, <<"material">>, <<>>)
        usage == FirstNonEmpty(r, <<"usage">>, <<>>)
        features == FirstNonEmpty(r, <<"features", "Features">>, <<>>)
    IN  FirstN((IF material # <<>>
                THEN <<<<"C","r","a","f","t","e","d"," ","f","r","o","m"," ">> \o material \o <<".">>>>
                ELSE <<>>)
               \o (IF usage # <<>>
                   THEN <<<<"I","d","e","a","l"," ","f","o","r"," ">> \o usage \o <<".">>>>
                   ELSE <<>>)
               \o TrimmedFragments(features, {"|", ",", Bullet, "\n"}),
               5)

\* C10: Amazon bullets are at most 5, the first 5 of: "Crafted from
\* <material>." if material is non-empty, "Ideal for <usage>." if usage is
\* non-empty, then the non-empty trimmed fragments of the first non-empty of
\* (features, Features), in order; "Soft•Durable,Light" gives Soft, Durable,
\* Light.
AmazonBulletsRule ==
    (pc = "done" /\ platform = "Amazon") =>
        /\ Len(AmazonBullets(row)) <= 5
        /\ AmazonBullets(row) = ClaimedAmazonBullets(row)
        /\ listing["BulletPoints"] = join(ClaimedAmazonBullets(row), <<" ", "|", " ">>)
        /\ (DOMAIN row = {"features"} /\ row["features"] = ValueSoft)
               => AmazonBullets(row) = <<<<"S","o","f","t">>, <<"D","u","r","a","b","l","e">>, <<"L","i","g","h","t">>>>

\* C10 witness: material, usage and six feature fragments, cut to five bullets.
AmazonBulletsWitness ==
    /\ pc = "done"
    /\ platform = "Amazon"
    /\ DOMAIN row = {"material", "usage", "features"}
    /\ row["material"] = ValueX
    /\ row["usage"] = ValueX
    /\ row["features"] = ValueMany
    /\ Len(AmazonBullets(row)) = 5
    /\ AmazonBullets(row)[3] = <<"a">>
    /\ AmazonBullets(row)[5] = <<"c">>

\* The Amazon keywords as documented.
ClaimedAmazonKeywords(r) ==
    LET listed == Fragments(FirstNonEmpty(r, <<"keywords", "search_terms">>, <<>>), {","})
        Present(c) == IF FirstNonEmpty(r, <<c>>, <<>>) # <<>> THEN <<r[c]>> ELSE <<>>
        all == listed \o Present("category") \o Present("sub_category")
                   \o Present("material") \o Present("color") \o Present("season")
    IN  FirstN(SelectSeq([k \in 1..Len(all) |-> Stripped(all[k])], IsNonEmpty), 15)

\* "red, red, red"
ClaimRedThrice ==
    <<"r","e","d",","," ","r","e","d",","," ","r","e","d">>

\* C11: Amazon keywords are the comma-split fragments of the first non-empty of
\* (keywords, search_terms), then the present values of category,
\* sub_category, material, color, season in that order, all trimmed, empties
\* dropped, duplicates kept, the first 15; keywords "red,red" with category
\* "red" give "red" three times in SearchKeywords.
AmazonKeywordsRule ==
    (pc = "done" /\ platform = "Amazon") =>
        /\ AmazonKeywords(row) = ClaimedAmazonKeywords(row)
        /\ Len(AmazonKeywords(row)) <= 15
        /\ listing["SearchKeywords"] = join(ClaimedAmazonKeywords(row), <<",", " ">>)
        /\ (DOMAIN row = {"keywords", "category"}
                /\ row["keywords"] = ValueRedRed /\ row["category"] = ValueRed)
               => listing["SearchKeywords"] = ClaimRedThrice

\* C11 witness: keywords "red,red" and category "red" give "red, red, red".
AmazonKeywordsWitness ==
    /\ pc = "done"
    /\ platform = "Amazon"
    /\ DOMAIN row = {"keywords", "category"}
    /\ row["keywords"] = ValueRedRed
    /\ row["category"] = ValueRed
    /\ AmazonKeywords(row) = <<ValueRed, ValueRed, ValueRed>>
    /\ listing["SearchKeywords"] = ClaimRedThrice

\* "Perfect addition for boutique sellers. Optimised margins for resellers.
\* Lightweight packaging for reduced logistics cost."
ClaimMeeshoWithMargin ==
    <<"P","e","r","f","e","c","t"," ","a","d","d","i","t","i","o","n"," ","f","o","r"," ","b","o","u","t","i","q","u","e"," ","s","e","l","l","e","r","s","."," ","O","p","t","i","m","i","s","e","d"," ","m","a","r","g","i","n","s"," ","f","o","r"," ","r","e","s","e","l","l","e","r","s","."," ","L","i","g","h","t","w","e","i","g","h","t"," ","p","a","c","k","a","g","i","n","g"," ","f","o","r"," ","r","e","d","u","c","e","d"," ","l","o","g","i","s","t","i","c","s"," ","c","o","s","t",".">>

\* "Perfect addition for boutique sellers.  Lightweight packaging for reduced
\* logistics cost.", with two spaces after "sellers."
ClaimMeeshoWithoutMargin ==
    <<"P","e","r","f","e","c","t"," ","a","d","d","i","t","i","o","n"," ","f","o","r"," ","b","o","u","t","i","q","u","e"," ","s","e","l","l","e","r","s","."," "," ","L","i","g","h","t","w","e","i","g","h","t"," ","p","a","c","k","a","g","i","n","g"," ","f","o","r"," ","r","e","d","u","c","e","d"," ","l","o","g","i","s","t","i","c","s"," ","c","o","s","t",".">>

\* C12: the Meesho description holds "Optimised margins for resellers." exactly
\* when margin or wholesale_price is non-empty, either alone sufficing;
\* otherwise the clause is empty and leaves two consecutive spaces.  The
\* values of margin and wholesale_price never appear in it.
MeeshoMarginClause ==
    (pc = "done" /\ platform = "Meesho") =>
        listing["Description"]
            = IF \/ FirstNonEmpty(row, <<"margin">>, <<>>) # <<>>
                 \/ FirstNonEmpty(row, <<"wholesale_price">>, <<>>) # <<>>
              THEN ClaimMeeshoWithMargin
              ELSE ClaimMeeshoWithoutMargin

\* C12 witness: wholesale_price alone, margin present but empty, gives the clause.
MeeshoMarginWitness ==
    /\ pc = "done"
    /\ platform = "Meesho"
    /\ DOMAIN row = {"margin", "wholesale_price"}
    /\ row["margin"] = <<>>
    /\ row["wholesale_price"] = ValueX
    /\ listing["Description"] = ClaimMeeshoWithMargin

\* C14: generateListing and enrichCatalog never change their inputs: a call
\* leaves every object that existed before it, the input rows among them, with
\* the same columns and values, leaves the rows array and the platforms array
\* as they were, and returns records that are new objects, distinct from every
\* input row and from one another.
InputsUntouched ==
    [][/\ DOMAIN heap \subseteq DOMAIN heap'
       /\ \A ref \in DOMAIN heap : heap'[ref] = heap[ref]
       /\ rowsRef' = rowsRef
       /\ plats' = plats
       /\ \A k \in DOMAIN outRef' : outRef'[k] \notin DOMAIN heap
       /\ \A k, m \in DOMAIN outRef' : k # m => outRef'[k] # outRef'[m]]_vars

\* C14 witness: enrichCatalog given the same row object twice, a row its
\* record is equal to: the first record equals the row and is another object.
InputsUntouchedWitness ==
    /\ pc = "done"
    /\ Len(rowsRef) = 2
    /\ rowsRef[1] = rowsRef[2]
    /\ Len(plats) = 2
    /\ Len(outRef) = 4
    /\ heap[outRef[1]] = heap[rowsRef[1]]
    /\ outRef[1] # rowsRef[1]

-----------------------------------------------------------------------------
(* C15, C17: the CatalogAssistant component                                *)

\* C15: a Generate click with no parsed rows, or with no platform selected, is
\* rejected with its warning ("Upload your catalog sheet first." when there is
\* no row, else "Select at least one marketplace."): it makes no outward call
\* (neither enrichCatalog nor onProgress) and leaves outputRows as it was; and
\* no event at all replaces outputRows by an empty array.
GenerateRejected ==
    [][/\ ((rawRows = <<>> \/ platforms = <<>>) /\ HandleGenerate)
            => /\ outputRows' = outputRows
               /\ calls' = <<>>
               /\ message' = IF rawRows = <<>> THEN AssistantText.uploadFirst ELSE AssistantText.selectMarketplace
       /\ outputRows' # outputRows => outputRows' # <<>>]_vars

\* C15 happens: records were generated, every platform was then deselected, and
\* the next Generate click was rejected, the records still there.
GenerateRejectedWitness ==
    /\ rawRows # <<>>
    /\ platforms = <<>>
    /\ message = AssistantText.selectMarketplace
    /\ calls = <<>>
    /\ outputRows # <<>>

\* The records of row i in an array generated for n platforms.
RecordsOfRow(out, i, n) == [j \in 1..n |-> out[(i - 1) * n + j]]

\* C17: the selected platforms are always distinct values of the enum; a
\* Generate click that is not rejected yields, for each row, at most four
\* records, no two of them with the same Platform; and a click that deselects
\* a platform leaves a list from which the next click on it gives the other
\* platforms in their order, followed by it.
PlatformsDistinct ==
    /\ [](/\ \A i \in DOMAIN platforms : platforms[i] \in ListingPlatform
          /\ \A i, j \in DOMAIN platforms : i # j => platforms[i] # platforms[j])
    /\ [][/\ (rawRows # <<>> /\ platforms # <<>> /\ HandleGenerate)
               => LET n == Len(outputRows') \div Len(rawRows)
                  IN  /\ Len(outputRows') = Len(rawRows) * n
                      /\ n <= 4
                      /\ \A i \in 1..Len(rawRows) :
                             LET recs == RecordsOfRow(outputRows', i, n)
                             IN  \A j, k \in 1..n :
                                     j # k => recs[j]["Platform"] # recs[k]["Platform"]
          /\ \A p \in ListingPlatform :
                 (TogglePlatform /\ Includes(platforms, p) /\ ~Includes(platforms', p))
                     => LET again == togglePlatform(platforms', p)
                        IN  /\ Includes(again, p)
                            /\ again = Append(Without(platforms, p), p)
                            /\ again[Len(again)] = p]_vars

\* C17 happens: Amazon was deselected and selected again, so that it is now the
\* last of the four, and the records generated then have it fourth.
PlatformsDistinctWitness ==
    /\ platforms = <<"Flipkart", "Meesho", "Myntra", "Amazon">>
    /\ Len(outputRows) = 4
    /\ outputRows[4]["Platform"] = PlatformName("Amazon")
    /\ outputRows[1]["Platform"] = PlatformName("Flipkart")

-----------------------------------------------------------------------------
(* C16: the VoiceAgent component                                           *)

\* What follows "update task" in a command.
AfterUpdateTask(text) == SubSeq(text, Len(VoiceText.updateTask) + 1, Len(text))

\* The <identifier> of "update task <identifier> with <notes>".
ClaimedIdentifier(text) == Stripped(Head(splitOn(AfterUpdateTask(text), VoiceText.with)))

\* The <notes> of "update task <identifier> with <notes>".
ClaimedNotes(text) == join(Tail(splitOn(AfterUpdateTask(text), VoiceText.with)), VoiceText.with)

\* The command has the form "update task <identifier> with <notes>".
IsUpdateCommand(text) ==
    /\ startsWith(toLowerCase(text), VoiceText.updateTask)
    /\ ClaimedIdentifier(text) # <<>>
    /\ ClaimedNotes(text) # <<>>

\* The task list the command is said to give.
ClaimedUpdate(ts, text) ==
    [k \in DOMAIN ts |->
        IF includes(toLowerCase(ts[k].title), toLowerCase(ClaimedIdentifier(text)))
        THEN [ts[k] EXCEPT !.status = "in-progress", !.notes = ClaimedNotes(text)]
        ELSE ts[k]]

\* C16: handling "update task <identifier> with <notes>" sets every task whose
\* title contains <identifier>, whatever the case, to in-progress with notes
\* <notes>, and leaves every other task and the number of tasks as they were.
UpdateTaskByIdentifier ==
    [][\A text \in Messages :
           (/\ IsUpdateCommand(text)
            /\ Len(logs') = Len(logs) + 2
            /\ logs'[Len(logs) + 1] = LogEntry("user", text))
               => tasks' = ClaimedUpdate(tasks, text)]_vars

====
